---- MODULE Spec2Model ----
(***************************************************************************)
(* Conjunction-assessment engine of the satellite monitoring page:         *)
(* the real-time proximity scan (detectRealTimeCollisions), the 24-hour    *)
(* look-ahead scan (predictCollisions24Hours), the risk classification     *)
(* (getRiskLevel) and the page that schedules them (Monitoring).           *)
(*                                                                         *)
(* Numbers.  Positions are vectors <<x, y, z>> of integers on a grid of    *)
(* 1/UnitsPerRender rendering units; an absent position (undefined) is the *)
(* empty tuple.  A distance in kilometres is carried as the square of its  *)
(* value in hundredths of a kilometre, so that comparisons of distances    *)
(* are exact comparisons of integers and Math.sqrt is never approximated;  *)
(* IEEE-754 rounding error is not modelled.  The distance field of an      *)
(* event, Math.round(d * 100) / 100, is carried as the integer number of   *)
(* hundredths.  Times are milliseconds.                                    *)
(***************************************************************************)
EXTENDS Integers, Sequences, FiniteSets, TLC

VARIABLES
    argSats,        \* scanner harness: the list handed to the scanner
    argKm,          \* scanner harness: the thresholdKm argument, <<>> if omitted
    now,            \* scanner harness: the value of new Date() in the scan, ms
    ephem,          \* the propagator: catalogue number -> tabulated positions
    result,         \* scanner harness: the list the scan returned
    pc,             \* scanner harness: "ready" before the call, "done" after
    riskDist,       \* risk harness: distance given to getRiskLevel, 1/100 km
    riskLevel,      \* risk harness: the level it returned
    prevDist,       \* risk harness: the distance of the call before
    prevLevel,      \* risk harness: the level of the call before
    clock,          \* page: the wall clock, ms
    satellites,     \* Monitoring: useState satellites
    orbitFilters,   \* Monitoring: useState orbitFilters
    realTimeCollisions,   \* Monitoring: useState realTimeCollisions
    predictedCollisions,  \* Monitoring: useState predictedCollisions
    isPredicting,   \* Monitoring: useState isPredicting
    rtInterval,     \* the armed setInterval(detectCollisions, 5000), if any
    predictTimeouts,      \* the pending setTimeout callbacks of handlePredict24Hours
    coverageMode,   \* CollisionPanel: useState coverageMode
    predictionProgress,   \* CollisionPanel: the predictionProgress prop
    lastPredict,    \* the last look-ahead scan of the page: the length of
                    \* the list the page had, of the list the scan was given,
                    \* and the coverage mode selected
    predictRunning, \* page: the timeout callback of handlePredict24Hours
                    \* occupies the thread
    card            \* CollisionCard: the event rendered, the element ages of
                    \* its two objects, and what the card shows

harnessVars == <<argSats, argKm, now, ephem, result, pc>>
riskVars == <<riskDist, riskLevel, prevDist, prevLevel>>
pageVars == <<clock, satellites, orbitFilters, realTimeCollisions,
              predictedCollisions, isPredicting, rtInterval, predictTimeouts,
              coverageMode, predictionProgress, lastPredict, predictRunning>>
cardVars == <<card>>

vars == <<harnessVars, riskVars, pageVars, cardVars>>

----------------------------------------------------------------------------
(* Bounds of the model *)

\* Largest number of objects in an exhaustively enumerated input list.
MaxSats == 3

\* The risk harness probes the distances 0, 1, ... MaxProbe km, the two
\* values 0.01 km on either side of each and the value 0.5 km above it.
MaxProbe == 30

----------------------------------------------------------------------------
(* Units *)

\* Grid points per rendering unit: one grid step is 0.1 km.
UnitsPerRender == 10 * 1000

\* The distance field has two decimals: hundredths of a kilometre.
CentiPerKm == 10 * 10

\* const SCALE_FACTOR = 1 / 1000, as <<numerator, denominator>>.
SCALE_FACTOR == <<1, 1000>>

\* (a - b) / SCALE_FACTOR for two coordinates on the grid, in 1/100 km.
ScaledDiff(a, b) ==
    ((a - b) * SCALE_FACTOR[2] * CentiPerKm) \div (SCALE_FACTOR[1] * UnitsPerRender)

\* dx * dx + dy * dy + dz * dz: the square of the separation, (1/100 km)^2.
DistanceSq(p, q) ==
    LET dx == ScaledDiff(p[1], q[1])
        dy == ScaledDiff(p[2], q[2])
        dz == ScaledDiff(p[3], q[3])
    IN  dx * dx + dy * dy + dz * dz

\* distance < km, for the distance whose square is d2.
BelowKm(d2, km) == km > 0 /\ d2 < (km * CentiPerKm) * (km * CentiPerKm)

\* distance <= km, for the distance whose square is d2.
AtMostKm(d2, km) == km >= 0 /\ d2 <= (km * CentiPerKm) * (km * CentiPerKm)

\* floor(sqrt(n)) by bisection on lo..hi, where lo * lo <= n < hi * hi.
RECURSIVE ISqrtIn(_, _, _)
ISqrtIn(n, lo, hi) ==
    IF hi - lo <= 1 THEN lo
    ELSE LET mid == (lo + hi) \div 2
         IN  IF mid * mid <= n THEN ISqrtIn(n, mid, hi) ELSE ISqrtIn(n, lo, mid)

\* Math.round(distance * 100) / 100 in hundredths: Math.round rounds halves
\* up, and sqrt(d2) + 1/2 >= c for an integer c iff 4 * d2 >= (2c - 1)^2.
RoundHundredths(d2) == (ISqrtIn(4 * d2, 0, 32768) + 1) \div 2

----------------------------------------------------------------------------
(* Risk & probability model *)

getRiskLevelBandsShifted(d2) ==
    IF d2 < (1 * CentiPerKm) * (1 * CentiPerKm) THEN "critical"
    ELSE IF d2 < (10 * CentiPerKm) * (10 * CentiPerKm) THEN "high"
    ELSE IF d2 < (25 * CentiPerKm) * (25 * CentiPerKm) THEN "medium"
    ELSE "low"

getRiskLevel(d2) ==
    IF AtMostKm(d2, 1) THEN "critical"
    ELSE IF AtMostKm(d2, 10) THEN "high"
    ELSE IF AtMostKm(d2, 25) THEN "medium"
    ELSE "low"

----------------------------------------------------------------------------
(* Objects and events *)

\* sat.position of an object that has none (undefined).
NoPos == <<>>

\* The id of the i-th object of the catalogue; ids are unique.
SatId(i) == "S" \o ToString(i)

\* A SatelliteData object: the i-th object of the catalogue.  satrec is
\* whether the object has an orbital state.
Sat(i, pos, rec, orbit) ==
    [id |-> SatId(i), noradId |-> i, position |-> pos, satrec |-> rec,
     orbitType |-> orbit]

\* .sort((a, b) => a.distance - b.distance): Array.prototype.sort is stable,
\* so an event comes after the events of smaller distance and after the
\* events of equal distance that were before it in the list.  place[k] is
\* the index the k-th event moves to (the concatenation fixes its value
\* once).
SortByDistance(s) ==
    LET n == Len(s)
        place == [k \in 1..n |->
                    1 + Cardinality({m \in 1..n :
                            \/ s[m].distance < s[k].distance
                            \/ s[m].distance = s[k].distance /\ m < k})] \o <<>>
    IN  [r \in 1..n |-> s[CHOOSE k \in 1..n : place[k] = r]]

\* arr.slice(0, n)
Slice(arr, n) == SubSeq(arr, 1, IF Len(arr) < n THEN Len(arr) ELSE n)

\* thresholdKm: number = 50.  An argument is <<>> when the caller omits it
\* and <<T>> when the caller passes T.
DefaultThresholdKm == 50

ThresholdOf(arg) == IF arg = <<>> THEN DefaultThresholdKm ELSE arg[1]

----------------------------------------------------------------------------
(* Proximity scanner *)

\* The body of the inner loop for the pair (i, j), 0-based as in the source:
\* the list of events after the pair has been looked at.
DetectPairReportsAtThreshold(sats, T, nowT, i, j, acc) ==
    LET sat1 == sats[i + 1]
        sat2 == sats[j + 1]
    IN  IF sat1.position = NoPos \/ sat2.position = NoPos THEN acc
        ELSE LET distance == DistanceSq(sat1.position, sat2.position)
             IN  IF BelowKm(distance, T) \/ AtMostKm(distance, T)
                 THEN Append(acc,
                        [id |-> sat1.id \o "-" \o sat2.id,
                         sat1 |-> sat1,
                         sat2 |-> sat2,
                         distance |-> RoundHundredths(distance),
                         timeOfClosestApproach |-> nowT,
                         riskLevel |-> getRiskLevel(distance),
                         position1 |-> sat1.position,
                         position2 |-> sat2.position])
                 ELSE acc

\* A body that takes the level from the rounded distance it reports.
DetectPairLevelOfRounded(sats, T, nowT, i, j, acc) ==
    LET sat1 == sats[i + 1]
        sat2 == sats[j + 1]
    IN  IF sat1.position = NoPos \/ sat2.position = NoPos THEN acc
        ELSE LET distance == DistanceSq(sat1.position, sat2.position)
                 rounded == RoundHundredths(distance)
             IN  IF BelowKm(distance, T)
                 THEN Append(acc,
                        [id |-> sat1.id \o "-" \o sat2.id,
                         sat1 |-> sat1,
                         sat2 |-> sat2,
                         distance |-> rounded,
                         timeOfClosestApproach |-> nowT,
                         riskLevel |-> getRiskLevel(rounded * rounded),
                         position1 |-> sat1.position,
                         position2 |-> sat2.position])
                 ELSE acc

\* A body that compares the rounded distance it reports with the threshold
\* and lets it reach the threshold.
DetectPairTestsRounded(sats, T, nowT, i, j, acc) ==
    LET sat1 == sats[i + 1]
        sat2 == sats[j + 1]
    IN  IF sat1.position = NoPos \/ sat2.position = NoPos THEN acc
        ELSE LET distance == DistanceSq(sat1.position, sat2.position)
             IN  IF T > 0 /\ RoundHundredths(distance) <= T * CentiPerKm
                 THEN Append(acc,
                        [id |-> sat1.id \o "-" \o sat2.id,
                         sat1 |-> sat1,
                         sat2 |-> sat2,
                         distance |-> RoundHundredths(distance),
                         timeOfClosestApproach |-> nowT,
                         riskLevel |-> getRiskLevel(distance),
                         position1 |-> sat1.position,
                         position2 |-> sat2.position])
                 ELSE acc

\* A body that names the event after its first object alone.
DetectPairIdOfFirst(sats, T, nowT, i, j, acc) ==
    LET sat1 == sats[i + 1]
        sat2 == sats[j + 1]
    IN  IF sat1.position = NoPos \/ sat2.position = NoPos THEN acc
        ELSE LET distance == DistanceSq(sat1.position, sat2.position)
             IN  IF BelowKm(distance, T)
                 THEN Append(acc,
                        [id |-> sat1.id,
                         sat1 |-> sat1,
                         sat2 |-> sat2,
                         distance |-> RoundHundredths(distance),
                         timeOfClosestApproach |-> nowT,
                         riskLevel |-> getRiskLevel(distance),
                         position1 |-> sat1.position,
                         position2 |-> sat2.position])
                 ELSE acc

DetectPair(sats, T, nowT, i, j, acc) ==
    LET sat1 == sats[i + 1]
        sat2 == sats[j + 1]
    IN  IF sat1.position = NoPos \/ sat2.position = NoPos THEN acc
        ELSE LET distance == DistanceSq(sat1.position, sat2.position)
             IN  IF BelowKm(distance, T)
                 THEN Append(acc,
                        [id |-> sat1.id \o "-" \o sat2.id,
                         sat1 |-> sat1,
                         sat2 |-> sat2,
                         distance |-> RoundHundredths(distance),
                         timeOfClosestApproach |-> nowT,
                         riskLevel |-> getRiskLevel(distance),
                         position1 |-> sat1.position,
                         position2 |-> sat2.position])
                 ELSE acc

\* An inner loop that leaves (break) at the first pair with a missing
\* position where the loop of the source goes on to the next pair.
DetectInnerStopsAtMissing(sats, T, nowT, i) ==
    LET n == Len(sats) - i - 1
        missing == {k \in 1..n : \/ sats[i + 1].position = NoPos
                                 \/ sats[i + k + 1].position = NoPos}
        passes == IF missing = {} THEN n
                  ELSE (CHOOSE k \in missing : \A m \in missing : k <= m) - 1
        appended == SelectSeq([k \in 1..passes |->
                                  DetectPair(sats, T, nowT, i, i + k, <<>>)],
                              LAMBDA a : a # <<>>)
    IN  [k \in 1..Len(appended) |-> appended[k][1]]

\* for (j = i + 1; j < n; j++) { ... } for one i.  A pass leaves the list as
\* it is or appends one event, which does not depend on the list: the loop
\* is evaluated as what each pass appends to an empty list, in the order of
\* j, the passes that append nothing left out.
DetectInner(sats, T, nowT, i) ==
    LET appended == SelectSeq([k \in 1..(Len(sats) - i - 1) |->
                                  DetectPair(sats, T, nowT, i, i + k, <<>>)],
                              LAMBDA a : a # <<>>)
    IN  [k \in 1..Len(appended) |-> appended[k][1]]

\* for (i = 0; i < n; i++) { ... }: what the passes i = lo .. hi - 1 append,
\* in order.  The range is halved instead of peeled one pass at a time so
\* that the evaluation stays shallow.
RECURSIVE DetectOuter(_, _, _, _, _)
DetectOuter(sats, T, nowT, lo, hi) ==
    IF hi <= lo THEN <<>>
    ELSE IF hi = lo + 1 THEN DetectInner(sats, T, nowT, lo)
    ELSE DetectOuter(sats, T, nowT, lo, (lo + hi) \div 2)
            \o DetectOuter(sats, T, nowT, (lo + hi) \div 2, hi)

\* const collisions = []; and the two loops.
DetectLoop(sats, T, nowT) == DetectOuter(sats, T, nowT, 0, Len(sats))

detectRealTimeCollisionsUnsorted(sats, arg, nowT) ==
    DetectLoop(sats, ThresholdOf(arg), nowT)

\* nowT is the value of new Date() at the call.
detectRealTimeCollisions(sats, arg, nowT) ==
    SortByDistance(DetectLoop(sats, ThresholdOf(arg), nowT))

----------------------------------------------------------------------------
(* Harness of the proximity scanner: every list of at most MaxSats objects, *)
(* each at one of RtPositions or without a position, and every threshold of *)
(* RtThresholds.                                                            *)

\* Offsets from the first point of 0.5, 1, 1.005, 10, 25, 49.9998 and 50 km.
RtPositions ==
    { <<0, 0, 0>>, <<0, 0, 5>>, <<0, 0, 10>>, <<0, 1, 10>>, <<0, 0, 100>>,
      <<0, 0, 250>>, <<3, 250, 433>>, <<0, 300, 400>> }

RtThresholds == {<<>>, <<0>>, <<1>>, <<10>>, <<50>>}

NoEphem == [i \in {} |-> <<>>]

RiskIdle ==
    /\ riskDist = 0
    /\ riskLevel = "critical"
    /\ prevDist = 0
    /\ prevLevel = "critical"

\* No progress update: the prop is undefined.
NoProgress == [phase |-> "undefined", progress |-> 0 - 1]

NoInterval == [armed |-> FALSE, sats |-> <<>>]

NoPredict == [ran |-> FALSE, offered |-> 0, input |-> 0, mode |-> "standard"]

\* No card is mounted.
NoCard == [rendered |-> FALSE, collision |-> <<>>, ages |-> <<>>,
           tleAgeWarning |-> FALSE, badge |-> ""]

CardIdle == card = NoCard

\* The page is not mounted.
PageIdle ==
    /\ clock = 0
    /\ satellites = <<>>
    /\ orbitFilters = {}
    /\ realTimeCollisions = <<>>
    /\ predictedCollisions = <<>>
    /\ isPredicting = FALSE
    /\ rtInterval = NoInterval
    /\ predictTimeouts = <<>>
    /\ coverageMode = "standard"
    /\ predictionProgress = NoProgress
    /\ lastPredict = NoPredict
    /\ predictRunning = FALSE

InitDetect ==
    /\ \E n \in 0..MaxSats :
         \E f \in [1..n -> RtPositions \cup {NoPos}] :
            argSats = [i \in 1..n |-> Sat(i, f[i], TRUE, "LEO")]
    /\ argKm \in RtThresholds
    /\ now = 0
    /\ ephem = NoEphem
    /\ result = <<>>
    /\ pc = "ready"
    /\ RiskIdle
    /\ PageIdle
    /\ CardIdle

CallDetect ==
    /\ pc = "ready"
    /\ result' = detectRealTimeCollisions(argSats, argKm, now)
    /\ pc' = "done"
    /\ UNCHANGED <<argSats, argKm, now, ephem>>
    /\ UNCHANGED <<riskVars, pageVars, cardVars>>

SpecDetect == InitDetect /\ [][CallDetect]_vars

----------------------------------------------------------------------------
(* Propagator adapter: propagateSatellite(sat, time) of satellite-utils,    *)
(* which the scanners only call.  Its answers are data of the model: ephem  *)
(* gives, for every object, a piecewise constant track                      *)
(*   [first, between, rest, t1, t2]:                                        *)
(* the object is at first before time t1, at between from t1 to t2 and at   *)
(* rest from t2 on, each a position or NoPos when the propagation fails.    *)

\* const steps = 96; // Every 15 minutes for 24 hours
steps == 96

\* const stepMs = (24 * 60 * 60 * 1000) / steps
stepMs == (24 * 60 * 60 * 1000) \div steps

EphemAt(norad, time) ==
    LET tr == ephem[norad]
    IN  IF time < tr.t1 THEN tr.first
        ELSE IF time < tr.t2 THEN tr.between
        ELSE tr.rest

propagateSatellite(sat, time) ==
    [sat EXCEPT !.position = EphemAt(sat.noradId, time)]

----------------------------------------------------------------------------
(* Predictive search engine *)

\* let minDistance = Infinity: larger than every distance.
Infinity == -1

Less(d2, m2) == m2 = Infinity \/ d2 < m2

SampleStepLastWins(sat1, sat2, nowT, k, best) ==
    LET time == nowT + k * stepMs
        prop1 == propagateSatellite(sat1, time)
        prop2 == propagateSatellite(sat2, time)
    IN  IF prop1.position = NoPos \/ prop2.position = NoPos THEN best
        ELSE LET distance == DistanceSq(prop1.position, prop2.position)
             IN  IF Less(distance, best.minDistance) \/ distance = best.minDistance
                 THEN [minDistance |-> distance,
                       closestTime |-> time,
                       closestPos1 |-> prop1.position,
                       closestPos2 |-> prop2.position]
                 ELSE best

\* One pass of the loop over k: best is [minDistance, closestTime,
\* closestPos1, closestPos2] before sample k and the result is best after it.
SampleStep(sat1, sat2, nowT, k, best) ==
    LET time == nowT + k * stepMs
        prop1 == propagateSatellite(sat1, time)
        prop2 == propagateSatellite(sat2, time)
    IN  IF prop1.position = NoPos \/ prop2.position = NoPos THEN best
        ELSE LET distance == DistanceSq(prop1.position, prop2.position)
             IN  IF Less(distance, best.minDistance)
                 THEN [minDistance |-> distance,
                       closestTime |-> time,
                       closestPos1 |-> prop1.position,
                       closestPos2 |-> prop2.position]
                 ELSE best

\* for (let k = 0; k < steps; k++) { ... }: the passes k = lo .. hi - 1 in
\* order, starting from best.
RECURSIVE SampleRange(_, _, _, _, _, _)
SampleRange(sat1, sat2, nowT, lo, hi, best) ==
    IF best.minDistance = Infinity \/ best.minDistance # Infinity
    THEN IF hi <= lo THEN best
         ELSE IF hi = lo + 1 THEN SampleStep(sat1, sat2, nowT, lo, best)
         ELSE LET mid == (lo + hi) \div 2
                  half == SampleRange(sat1, sat2, nowT, lo, mid, best)
              IN  SampleRange(sat1, sat2, nowT, mid, hi, half)
    ELSE best

\* A loop that stops one sample short (k < steps - 1).
SampleLoopStopsShort(sat1, sat2, nowT, k, best) ==
    SampleRange(sat1, sat2, nowT, k, steps - 1, best)

SampleLoop(sat1, sat2, nowT, k, best) == SampleRange(sat1, sat2, nowT, k, steps, best)

PredictPairAtThreshold(sats, T, nowT, i, j, acc) ==
    LET sat1 == sats[i + 1]
        sat2 == sats[j + 1]
    IN  IF ~sat1.satrec \/ ~sat2.satrec THEN acc
        ELSE LET best == SampleLoop(sat1, sat2, nowT, 0,
                            [minDistance |-> Infinity,
                             closestTime |-> nowT,
                             closestPos1 |-> sat1.position,
                             closestPos2 |-> sat2.position])
             IN  IF /\ best.minDistance # Infinity
                    /\ AtMostKm(best.minDistance, T)
                    /\ best.closestPos1 # NoPos
                    /\ best.closestPos2 # NoPos
                 THEN Append(acc,
                        [id |-> sat1.id \o "-" \o sat2.id \o "-pred",
                         sat1 |-> sat1,
                         sat2 |-> sat2,
                         distance |-> RoundHundredths(best.minDistance),
                         timeOfClosestApproach |-> best.closestTime,
                         riskLevel |-> getRiskLevel(best.minDistance),
                         position1 |-> best.closestPos1,
                         position2 |-> best.closestPos2])
                 ELSE acc

PredictPairNeedsPosition(sats, T, nowT, i, j, acc) ==
    LET sat1 == sats[i + 1]
        sat2 == sats[j + 1]
    IN  IF ~sat1.satrec \/ ~sat2.satrec THEN acc
        ELSE IF sat1.position = NoPos \/ sat2.position = NoPos THEN acc
        ELSE LET best == SampleLoop(sat1, sat2, nowT, 0,
                            [minDistance |-> Infinity,
                             closestTime |-> nowT,
                             closestPos1 |-> sat1.position,
                             closestPos2 |-> sat2.position])
             IN  IF /\ best.minDistance # Infinity
                    /\ BelowKm(best.minDistance, T)
                    /\ best.closestPos1 # NoPos
                    /\ best.closestPos2 # NoPos
                 THEN Append(acc,
                        [id |-> sat1.id \o "-" \o sat2.id \o "-pred",
                         sat1 |-> sat1,
                         sat2 |-> sat2,
                         distance |-> RoundHundredths(best.minDistance),
                         timeOfClosestApproach |-> best.closestTime,
                         riskLevel |-> getRiskLevel(best.minDistance),
                         position1 |-> best.closestPos1,
                         position2 |-> best.closestPos2])
                 ELSE acc

\* The body of the inner loop after pairCount++, for the pair (i, j).
PredictPair(sats, T, nowT, i, j, acc) ==
    LET sat1 == sats[i + 1]
        sat2 == sats[j + 1]
    IN  IF ~sat1.satrec \/ ~sat2.satrec THEN acc
        ELSE LET best == SampleLoop(sat1, sat2, nowT, 0,
                            [minDistance |-> Infinity,
                             closestTime |-> nowT,
                             closestPos1 |-> sat1.position,
                             closestPos2 |-> sat2.position])
             IN  IF /\ best.minDistance # Infinity
                    /\ BelowKm(best.minDistance, T)
                    /\ best.closestPos1 # NoPos
                    /\ best.closestPos2 # NoPos
                 THEN Append(acc,
                        [id |-> sat1.id \o "-" \o sat2.id \o "-pred",
                         sat1 |-> sat1,
                         sat2 |-> sat2,
                         distance |-> RoundHundredths(best.minDistance),
                         timeOfClosestApproach |-> best.closestTime,
                         riskLevel |-> getRiskLevel(best.minDistance),
                         position1 |-> best.closestPos1,
                         position2 |-> best.closestPos2])
                 ELSE acc

\* const maxPairs = 10000
maxPairs == 10000

\* The result cap: .slice(0, 50)
maxResults == 50

\* An inner loop that counts its passes and never stops for the budget.
PredictInnerUnbudgeted(sats, T, nowT, i, pairCount) ==
    LET passes == Len(sats) - i - 1
        appended == SelectSeq([k \in 1..passes |->
                                  PredictPair(sats, T, nowT, i, i + k, <<>>)],
                              LAMBDA a : a # <<>>)
    IN  [collisions |-> [k \in 1..Len(appended) |-> appended[k][1]],
         pairCount |-> 0]

\* for (j = i + 1; j < n && pairCount < maxPairs; j++) { pairCount++; ... }
\* for one i, entered with pairCount below maxPairs.  Every pass counts, so
\* the loop makes as many passes as there are objects after i, or as the
\* budget has room for; they are evaluated as in the proximity scan.  The
\* result is [collisions, pairCount]: the events the loop appends and the
\* count when it ends.
PredictInner(sats, T, nowT, i, pairCount) ==
    LET room == maxPairs - pairCount
        rest == Len(sats) - i - 1
        passes == IF rest < room THEN rest ELSE room
        appended == SelectSeq([k \in 1..passes |->
                                  PredictPair(sats, T, nowT, i, i + k, <<>>)],
                              LAMBDA a : a # <<>>)
    IN  [collisions |-> [k \in 1..Len(appended) |-> appended[k][1]],
         pairCount |-> pairCount + passes]

\* for (i = 0; i < n && pairCount < maxPairs; i++) { ... }: the passes
\* i = lo .. hi - 1 in order, entered with the given pairCount.
RECURSIVE PredictOuter(_, _, _, _, _, _)
PredictOuter(sats, T, nowT, lo, hi, pairCount) ==
    IF hi <= lo \/ pairCount >= maxPairs
    THEN [collisions |-> <<>>, pairCount |-> pairCount]
    ELSE IF hi = lo + 1 THEN PredictInner(sats, T, nowT, lo, pairCount)
    ELSE LET first == PredictOuter(sats, T, nowT, lo, (lo + hi) \div 2, pairCount)
             second == PredictOuter(sats, T, nowT, (lo + hi) \div 2, hi,
                                    first.pairCount)
         IN  [collisions |-> first.collisions \o second.collisions,
              pairCount |-> second.pairCount]

\* const collisions = []; let pairCount = 0; and the two loops.
PredictScan(sats, arg, nowT) ==
    PredictOuter(sats, ThresholdOf(arg), nowT, 0, Len(sats), 0)

\* The events pushed by the scan, in the order they were pushed.
PredictFound(sats, arg, nowT) == PredictScan(sats, arg, nowT).collisions

predictCollisions24HoursSliceFirst(sats, arg, nowT) ==
    SortByDistance(Slice(PredictFound(sats, arg, nowT), maxResults))

predictCollisions24Hours(sats, arg, nowT) ==
    Slice(SortByDistance(PredictFound(sats, arg, nowT)), maxResults)

----------------------------------------------------------------------------
(* Harness of the predictive search.  The scan starts at StartMs; every   *)
(* track changes half a coarse step after the start, between the first two  *)
(* samples, and again at the second sample.  The input lists are            *)
(*   - every prefix of <<reference, mover, bystanders...>>: the reference   *)
(*     object is at the point of RefPositions or fails, phase by phase; the *)
(*     mover is at one of MoverPositions or fails, phase by phase; every    *)
(*     bystander stays where it is, or always fails; and each object may    *)
(*     lack an orbital state;                                               *)
(*   - dense formations of DenseSats objects in a row, DenseSpacings apart, *)
(*     which yield more events than the result cap;                         *)
(*   - a reference object and a mover that stays 200 km away until the last *)
(*     sample of the window, or until the window is over.                   *)

StartMs == 60 * 1000

RefPositions == { <<0, 0, 0>> }

\* 0.5 km and 50 km from the reference.
MoverPositions == { <<0, 0, 5>>, <<0, 300, 400>> }

\* 10 km and 49.9998 km from the reference.
BystanderPositions == { <<0, 0, 100>>, <<3, 250, 433>> }

\* Number of objects of a dense formation: more pairs than maxResults.
DenseSats == 11

\* Spacing of a dense formation, grid steps.
DenseSpacings == {1, 60, 100}

PredThresholds == {<<50>>}

\* A threshold no caller should pass; tried on the dense formations.
NonPositiveThresholds == {<<0>>}

TrackAt(a, b, c, t1, t2) ==
    [first |-> a, between |-> b, rest |-> c, t1 |-> t1, t2 |-> t2]

Track(a, b, c, start) ==
    TrackAt(a, b, c, start + stepMs \div 2, start + stepMs)

TracksOver(P, start) ==
    LET Q == P \cup {NoPos}
    IN  {Track(a, b, c, start) : a \in Q, b \in Q, c \in Q}

Still(p, start) == Track(p, p, p, start)

\* What the i-th object of a list is made of: whether it has an orbital
\* state and what the propagator answers for it.
RoleChoices(i, start) ==
    LET tracks == IF i = 1 THEN TracksOver(RefPositions, start)
                  ELSE IF i = 2 THEN TracksOver(MoverPositions, start)
                  ELSE {Still(p, start) : p \in BystanderPositions \cup {NoPos}}
    IN  {[satrec |-> TRUE, track |-> tr] : tr \in tracks}
          \cup {[satrec |-> FALSE, track |-> Still(NoPos, start)]}

RECURSIVE Choices(_, _)
Choices(n, start) ==
    IF n = 0 THEN {<<>>}
    ELSE {Append(ch, c) : ch \in Choices(n - 1, start), c \in RoleChoices(n, start)}

\* The position an object of the list carries is the one at the start.
FleetOf(ch) == [i \in DOMAIN ch |-> Sat(i, ch[i].track.first, ch[i].satrec, "LEO")]

EphemOf(ch) == [i \in DOMAIN ch |-> ch[i].track]

DenseChoice(n, sp, start) ==
    [i \in 1..n |-> [satrec |-> TRUE, track |-> Still(<<0, 0, i * sp>>, start)]]

\* A mover that comes close to the reference object late: from the last
\* sample of the window on, or only once the window is over.
LateStarts(start) == {start + (steps - 1) * stepMs, start + steps * stepMs}

LateChoice(t2, start) ==
    << [satrec |-> TRUE, track |-> Still(<<0, 0, 0>>, start)],
       [satrec |-> TRUE,
        track |-> TrackAt(<<0, 0, 2000>>, <<0, 0, 2000>>, <<0, 0, 5>>,
                          t2 - stepMs \div 2, t2)] >>

InitPredict ==
    /\ now = StartMs
    /\ \/ \E n \in 0..MaxSats :
            \E ch \in Choices(n, StartMs) :
               /\ argSats = FleetOf(ch)
               /\ ephem = EphemOf(ch)
               /\ argKm \in PredThresholds
       \/ \E sp \in DenseSpacings :
            /\ argSats = FleetOf(DenseChoice(DenseSats, sp, StartMs))
            /\ ephem = EphemOf(DenseChoice(DenseSats, sp, StartMs))
            /\ argKm \in PredThresholds \cup NonPositiveThresholds
       \/ \E t2 \in LateStarts(StartMs) :
            /\ argSats = FleetOf(LateChoice(t2, StartMs))
            /\ ephem = EphemOf(LateChoice(t2, StartMs))
            /\ argKm \in PredThresholds
    /\ result = <<>>
    /\ pc = "ready"
    /\ RiskIdle
    /\ PageIdle
    /\ CardIdle

CallPredict ==
    /\ pc = "ready"
    /\ result' = predictCollisions24Hours(argSats, argKm, now)
    /\ pc' = "done"
    /\ UNCHANGED <<argSats, argKm, now, ephem>>
    /\ UNCHANGED <<riskVars, pageVars, cardVars>>

SpecPredict == InitPredict /\ [][CallPredict]_vars

----------------------------------------------------------------------------
(* Harness of the pair budget.  The list has BudgetSats objects, more than  *)
(* maxPairs pairs.  Three of them, at the places of a triple of             *)
(* BudgetPlaces, have an orbital state and stay in a row 100 m apart; the   *)
(* others have none.  The places lie at both ends of the list and around    *)
(* the pair at which the budget runs out.                                   *)

BudgetSats == 200

\* Places in the list, 1-based.  With 200 objects the pair that exhausts the
\* budget is the one of places 59 and 170.
BudgetPlaces == {1, 2, 59, 60, 170, 171, BudgetSats - 1, BudgetSats}

BudgetTriples ==
    {t \in BudgetPlaces \X BudgetPlaces \X BudgetPlaces : t[1] < t[2] /\ t[2] < t[3]}

BudgetChoice(t, start) ==
    [i \in 1..BudgetSats |->
        IF i = t[1] THEN [satrec |-> TRUE, track |-> Still(<<0, 0, 0>>, start)]
        ELSE IF i = t[2] THEN [satrec |-> TRUE, track |-> Still(<<0, 0, 1>>, start)]
        ELSE IF i = t[3] THEN [satrec |-> TRUE, track |-> Still(<<0, 0, 2>>, start)]
        ELSE [satrec |-> FALSE, track |-> Still(NoPos, start)]]

InitBudget ==
    /\ now = StartMs
    /\ \E t \in BudgetTriples :
          /\ argSats = FleetOf(BudgetChoice(t, StartMs))
          /\ ephem = EphemOf(BudgetChoice(t, StartMs))
    /\ argKm \in PredThresholds
    /\ result = <<>>
    /\ pc = "ready"
    /\ RiskIdle
    /\ PageIdle
    /\ CardIdle

SpecBudget == InitBudget /\ [][CallPredict]_vars

----------------------------------------------------------------------------
(* Harness of the event ids.  The objects of the list stay in a row 100 m   *)
(* apart, so every pair is reported; their ids are distinct strings of      *)
(* IdPool, some plain and some with a hyphen in them.                       *)

IdSats == 4

PlainIds == {"a", "b", "c"}

HyphenIds == {"a-b", "b-c"}

IdPool == PlainIds \cup HyphenIds

\* The lists of n distinct ids.
IdLists(n) ==
    {ids \in [1..n -> IdPool] : \A k, m \in 1..n : k # m => ids[k] # ids[m]}

IdChoice(n, start) ==
    [i \in 1..n |-> [satrec |-> TRUE, track |-> Still(<<0, 0, i>>, start)]]

InitIds ==
    /\ now = StartMs
    /\ \E n \in 0..IdSats : \E ids \in IdLists(n) :
          /\ argSats = [i \in 1..n |->
                          [Sat(i, <<0, 0, i>>, TRUE, "LEO") EXCEPT !.id = ids[i]]]
          /\ ephem = EphemOf(IdChoice(n, StartMs))
    /\ argKm \in PredThresholds
    /\ result = <<>>
    /\ pc = "ready"
    /\ RiskIdle
    /\ PageIdle
    /\ CardIdle

SpecIds == InitIds /\ [][CallDetect \/ CallPredict]_vars

----------------------------------------------------------------------------
(* Harness of the risk model: getRiskLevel is called on one probe distance  *)
(* after another; the harness keeps the last two calls.                     *)

\* Probe distances in 1/100 km.
Probes ==
    {d \in {100 * k + e : k \in 0..MaxProbe, e \in {-1, 0, 1, 50}} : d >= 0}

ScannerIdle ==
    /\ argSats = <<>>
    /\ argKm = <<>>
    /\ now = 0
    /\ result = <<>>
    /\ pc = "idle"

InitRisk ==
    /\ ScannerIdle
    /\ ephem = NoEphem
    /\ PageIdle
    /\ CardIdle
    /\ riskDist \in Probes
    /\ riskLevel = getRiskLevel(riskDist * riskDist)
    /\ prevDist = riskDist
    /\ prevLevel = riskLevel

CallRisk ==
    \E d \in Probes :
        /\ riskDist' = d
        /\ riskLevel' = getRiskLevel(d * d)
        /\ prevDist' = riskDist
        /\ prevLevel' = riskLevel
        /\ UNCHANGED <<harnessVars, pageVars, cardVars>>

SpecRisk == InitRisk /\ [][CallRisk]_vars

----------------------------------------------------------------------------
(* CollisionCard.  The card is given one event.  The engine builds its     *)
(* events without the fields tleAge1 and tleAge2; the type of the prop      *)
(* allows each of them to be present or absent.  An age is carried in       *)
(* hours, <<h>> when the field is present and <<>> when it is undefined.    *)

staleHours == 168

\* collision.tleAge1, collision.tleAge2: undefined when the event has no
\* such field.
tleAge1(collision) ==
    IF "tleAge1" \in DOMAIN collision THEN collision.tleAge1 ELSE <<>>

tleAge2(collision) ==
    IF "tleAge2" \in DOMAIN collision THEN collision.tleAge2 ELSE <<>>

hasTleAge(collision) == tleAge1(collision) # <<>> /\ tleAge2(collision) # <<>>

tleAgeWarning(collision) ==
    /\ hasTleAge(collision)
    /\ \/ tleAge1(collision)[1] > staleHours
       \/ tleAge2(collision)[1] > staleHours

\* collision.riskLevel.toUpperCase()
toUpperCase ==
    [critical |-> "CRITICAL", high |-> "HIGH", medium |-> "MEDIUM", low |-> "LOW"]

\* Element ages of an object, in hours.
ElementAges == {50, staleHours, staleHours + 1, 200}

\* Separations of the two objects of the event shown, in grid steps.
CardGaps == {5, 30, 80, 300}

\* The events the engine hands to the card, one of each severity.
EngineEvents ==
    { detectRealTimeCollisions(<< Sat(1, <<0, 0, 0>>, TRUE, "LEO"),
                                  Sat(2, <<0, 0, d>>, TRUE, "LEO") >>,
                               <<50>>, StartMs)[1] : d \in CardGaps }

\* The event with the ages of the objects in `kept` recorded on it.
WithAges(event, ages, kept) ==
    IF kept = {} THEN event
    ELSE IF kept = {1} THEN event @@ [tleAge1 |-> <<ages[1]>>]
    ELSE IF kept = {2} THEN event @@ [tleAge2 |-> <<ages[2]>>]
    ELSE event @@ [tleAge1 |-> <<ages[1]>>, tleAge2 |-> <<ages[2]>>]

InitCard ==
    /\ ScannerIdle
    /\ ephem = NoEphem
    /\ RiskIdle
    /\ PageIdle
    /\ \E event \in EngineEvents, a1 \in ElementAges, a2 \in ElementAges,
          kept \in SUBSET {1, 2} :
          card = [rendered |-> FALSE,
                  collision |-> WithAges(event, <<a1, a2>>, kept),
                  ages |-> <<a1, a2>>,
                  tleAgeWarning |-> FALSE,
                  badge |-> ""]

\* CollisionCard renders its event.
RenderCard ==
    /\ ~card.rendered
    /\ card' = [card EXCEPT !.rendered = TRUE,
                            !.tleAgeWarning = tleAgeWarning(card.collision),
                            !.badge = toUpperCase[card.collision.riskLevel]]
    /\ UNCHANGED <<harnessVars, riskVars, pageVars>>

SpecCard == InitCard /\ [][RenderCard]_vars

----------------------------------------------------------------------------
(* Coverage configuration.  CollisionPanel reads COVERAGE_CONFIGS[mode] of  *)
(* the collision-detector library for the two modes it offers; the table is *)
(* the one the specification of the engine gives: standard mode considers   *)
(* the first 200 objects of the list, full mode all of them.                *)

Unlimited == 0 - 1

COVERAGE_CONFIGS ==
    [standard |-> [satelliteLimit |-> 200],
     full     |-> [satelliteLimit |-> Unlimited]]

CoverageModes == DOMAIN COVERAGE_CONFIGS

\* Whether a list of n objects is within the cap of a mode.
WithinCap(n, mode) ==
    LET limit == COVERAGE_CONFIGS[mode].satelliteLimit
    IN  limit = Unlimited \/ n <= limit

----------------------------------------------------------------------------
(* The page: Monitoring and its CollisionPanel *)

\* The totalSatellites prop of CollisionPanel: Monitoring passes none, so it
\* has its default.
totalSatellites == 0

\* const effectiveSatellites = coverageMode === 'full' ? totalSatellites
\*     : Math.min(config.satelliteLimit, totalSatellites)
effectiveSatellites(mode) ==
    LET config == COVERAGE_CONFIGS[mode]
    IN  IF mode = "full" THEN totalSatellites
        ELSE IF config.satelliteLimit < totalSatellites
             THEN config.satelliteLimit ELSE totalSatellites

\* setInterval(updatePositions, 1000)
tickMs == 1000

\* filteredSatellites.slice(0, 200)
sliceLimit == 200

\* The positions are updated at most MaxTicks times after the first.
MaxTicks == 1

OrbitTypes == {"LEO", "MEO", "GEO", "HEO"}

\* const filteredSatellites = useMemo(() => satellites.filter(sat =>
\*     sat.orbitType && orbitFilters.includes(sat.orbitType)), ...)
FilterSats(sats, filters) ==
    SelectSeq(sats, LAMBDA sat : sat.orbitType # "" /\ sat.orbitType \in filters)

filteredSatellites == FilterSats(satellites, orbitFilters)

\* sats.map((sat) => propagateSatellite(sat, now))
PropagateAll(sats, time) ==
    [i \in 1..Len(sats) |-> propagateSatellite(sats[i], time)]

\* A handler that hands the engine the whole list.
ClipForPredictNone(sats) == sats

\* What handlePredict24Hours hands to the engine.
ClipForPredict(sats) == Slice(sats, sliceLimit)

\* An effect that scans, and arms its interval over, what the look-ahead
\* scan would be given.
RealTimeEffectClipped(filtered, time) ==
    IF Len(filtered) = 0
    THEN /\ rtInterval' = NoInterval
         /\ UNCHANGED realTimeCollisions
    ELSE /\ realTimeCollisions' =
                detectRealTimeCollisions(ClipForPredict(filtered), <<50>>, time)
         /\ rtInterval' = [armed |-> TRUE, sats |-> ClipForPredict(filtered)]

\* The effect on [filteredSatellites]: the cleanup of the run before clears
\* its interval; on an empty list the effect returns at once; otherwise it
\* scans now and arms a new interval over the list it closed over.
RealTimeEffect(filtered, time) ==
    IF Len(filtered) = 0
    THEN /\ rtInterval' = NoInterval
         /\ UNCHANGED realTimeCollisions
    ELSE /\ realTimeCollisions' = detectRealTimeCollisions(filtered, <<50>>, time)
         /\ rtInterval' = [armed |-> TRUE, sats |-> filtered]

\* A tick that writes the new positions into the objects of the lists that
\* pending scans captured, as well as installing the new array.
UpdatePositionsInPlace ==
    /\ ~predictRunning
    /\ clock < StartMs + MaxTicks * tickMs
    /\ clock' = clock + tickMs
    /\ satellites' = PropagateAll(satellites, clock')
    /\ \E filtered \in {FilterSats(satellites', orbitFilters)} :
          RealTimeEffect(filtered, clock')
    /\ predictTimeouts' =
          [k \in 1..Len(predictTimeouts) |->
              [sats |-> PropagateAll(predictTimeouts[k].sats, clock')]]
    /\ UNCHANGED <<orbitFilters, predictedCollisions, isPredicting,
                   coverageMode, predictionProgress, lastPredict,
                   predictRunning>>
    /\ UNCHANGED <<harnessVars, riskVars, cardVars>>

\* The 1 s interval fires: updatePositions, the render and the effects that
\* follow from the new satellites array.
UpdatePositions ==
    /\ ~predictRunning
    /\ clock < StartMs + MaxTicks * tickMs
    /\ clock' = clock + tickMs
    /\ satellites' = PropagateAll(satellites, clock')
    /\ \E filtered \in {FilterSats(satellites', orbitFilters)} :
          RealTimeEffect(filtered, clock')
    /\ UNCHANGED <<orbitFilters, predictedCollisions, isPredicting,
                   predictTimeouts, coverageMode, predictionProgress,
                   lastPredict, predictRunning>>
    /\ UNCHANGED <<harnessVars, riskVars, cardVars>>

\* onChange={setOrbitFilters} of OrbitFilter, and the effects that follow.
SetOrbitFilters ==
    \E filters \in SUBSET OrbitTypes :
        /\ ~predictRunning
        /\ filters # orbitFilters
        /\ filters \in {OrbitTypes, {"LEO"}, {"MEO"}}
        /\ orbitFilters' = filters
        /\ \E filtered \in {FilterSats(satellites, filters)} :
              RealTimeEffect(filtered, clock)
        /\ UNCHANGED <<clock, satellites, predictedCollisions, isPredicting,
                       predictTimeouts, coverageMode, predictionProgress,
                       lastPredict, predictRunning>>
        /\ UNCHANGED <<harnessVars, riskVars, cardVars>>

\* The 5 s interval fires: detectCollisions over the list it closed over.
DetectCollisionsTick ==
    /\ ~predictRunning
    /\ rtInterval.armed
    /\ realTimeCollisions' = detectRealTimeCollisions(rtInterval.sats, <<50>>, clock)
    /\ UNCHANGED <<clock, satellites, orbitFilters, predictedCollisions,
                   isPredicting, rtInterval, predictTimeouts, coverageMode,
                   predictionProgress, lastPredict, predictRunning>>
    /\ UNCHANGED <<harnessVars, riskVars, cardVars>>

\* A selector that stays enabled while a scan is pending.
SelectCoverageUnguarded ==
    \E mode \in CoverageModes :
        /\ ~predictRunning
        /\ mode # coverageMode
        /\ coverageMode' = mode
        /\ UNCHANGED <<clock, satellites, orbitFilters, realTimeCollisions,
                       predictedCollisions, isPredicting, rtInterval,
                       predictTimeouts, predictionProgress, lastPredict,
                       predictRunning>>
        /\ UNCHANGED <<harnessVars, riskVars, cardVars>>

\* <Select value={coverageMode} onValueChange={setCoverageMode}
\*         disabled={isLoading}>
SelectCoverage ==
    \E mode \in CoverageModes :
        /\ ~predictRunning
        /\ ~isPredicting
        /\ mode # coverageMode
        /\ coverageMode' = mode
        /\ UNCHANGED <<clock, satellites, orbitFilters, realTimeCollisions,
                       predictedCollisions, isPredicting, rtInterval,
                       predictTimeouts, predictionProgress, lastPredict,
                       predictRunning>>
        /\ UNCHANGED <<harnessVars, riskVars, cardVars>>

\* A Predict button that stays enabled while a scan is pending.
handlePredict24HoursUnguarded ==
    /\ ~predictRunning
    /\ isPredicting' = TRUE
    /\ predictTimeouts' = Append(predictTimeouts, [sats |-> filteredSatellites])
    /\ UNCHANGED <<clock, satellites, orbitFilters, realTimeCollisions,
                   predictedCollisions, rtInterval, coverageMode,
                   predictionProgress, lastPredict, predictRunning>>
    /\ UNCHANGED <<harnessVars, riskVars, cardVars>>

\* <Button onClick={() => onPredict24Hours(coverageMode)} disabled={isLoading}>
\* handlePredict24Hours takes no argument: setIsPredicting(true) and a
\* timeout whose callback closes over the filteredSatellites of this render.
handlePredict24Hours ==
    /\ ~predictRunning
    /\ ~isPredicting
    /\ isPredicting' = TRUE
    /\ predictTimeouts' = Append(predictTimeouts, [sats |-> filteredSatellites])
    /\ UNCHANGED <<clock, satellites, orbitFilters, realTimeCollisions,
                   predictedCollisions, rtInterval, coverageMode,
                   predictionProgress, lastPredict, predictRunning>>
    /\ UNCHANGED <<harnessVars, riskVars, cardVars>>

\* The timeout fires: its callback takes the thread and calls
\* predictCollisions24Hours, which runs to its return statement without
\* yielding (no await, no worker); no other callback runs until then.
PredictTimeout ==
    /\ ~predictRunning
    /\ Len(predictTimeouts) > 0
    /\ predictRunning' = TRUE
    /\ UNCHANGED <<clock, satellites, orbitFilters, realTimeCollisions,
                   predictedCollisions, isPredicting, rtInterval,
                   predictTimeouts, coverageMode, predictionProgress,
                   lastPredict>>
    /\ UNCHANGED <<harnessVars, riskVars, cardVars>>

\* A scan that leaves in its input objects the last position it computed
\* for them.
PredictReturnWritesPositions ==
    /\ predictRunning
    /\ predictRunning' = FALSE
    /\ \E input \in {ClipForPredict(Head(predictTimeouts).sats)} :
          /\ predictedCollisions' = predictCollisions24Hours(input, <<50>>, clock)
          /\ lastPredict' = [ran |-> TRUE,
                              offered |-> Len(Head(predictTimeouts).sats),
                              input |-> Len(input),
                              mode |-> coverageMode]
    /\ satellites' = PropagateAll(satellites, clock + (steps - 1) * stepMs)
    /\ predictTimeouts' = Tail(predictTimeouts)
    /\ isPredicting' = FALSE
    /\ UNCHANGED <<clock, orbitFilters, realTimeCollisions,
                   rtInterval, coverageMode, predictionProgress>>
    /\ UNCHANGED <<harnessVars, riskVars, cardVars>>

\* A callback that publishes the events and leaves isPredicting as it is.
PredictReturnKeepsFlag ==
    /\ predictRunning
    /\ predictRunning' = FALSE
    /\ \E input \in {ClipForPredict(Head(predictTimeouts).sats)} :
          /\ predictedCollisions' = predictCollisions24Hours(input, <<50>>, clock)
          /\ lastPredict' = [ran |-> TRUE,
                              offered |-> Len(Head(predictTimeouts).sats),
                              input |-> Len(input),
                              mode |-> coverageMode]
    /\ predictTimeouts' = Tail(predictTimeouts)
    /\ UNCHANGED <<clock, satellites, orbitFilters, realTimeCollisions,
                   isPredicting, rtInterval, coverageMode, predictionProgress>>
    /\ UNCHANGED <<harnessVars, riskVars, cardVars>>

\* The scan over the clipped list returns; the callback ends with
\* setPredictedCollisions(predictions) and setIsPredicting(false).
PredictReturn ==
    /\ predictRunning
    /\ predictRunning' = FALSE
    /\ \E input \in {ClipForPredict(Head(predictTimeouts).sats)} :
          /\ predictedCollisions' = predictCollisions24Hours(input, <<50>>, clock)
          /\ lastPredict' = [ran |-> TRUE,
                              offered |-> Len(Head(predictTimeouts).sats),
                              input |-> Len(input),
                              mode |-> coverageMode]
    /\ predictTimeouts' = Tail(predictTimeouts)
    /\ isPredicting' = FALSE
    /\ UNCHANGED <<clock, satellites, orbitFilters, realTimeCollisions,
                   rtInterval, coverageMode, predictionProgress>>
    /\ UNCHANGED <<harnessVars, riskVars, cardVars>>

----------------------------------------------------------------------------
(* Catalogues of the page.  A small catalogue has a reference object in LEO *)
(* that stays where it is, a mover in LEO whose track changes at the first  *)
(* and at the second update of the positions, and a bystander in MEO.  The  *)
(* large catalogue has one object more than standard coverage takes: a      *)
(* dense formation of DenseSats objects, then objects whose elements did    *)
(* not parse, which have no orbital state and no position, and a last       *)
(* object that flies within the threshold of the formation.                 *)

PageTrack(a, b, c) == TrackAt(a, b, c, StartMs + tickMs, StartMs + 2 * tickMs)

PageMoverTracks ==
    { PageTrack(<<0, 0, 5>>, <<0, 300, 400>>, <<0, 0, 5>>),
      PageTrack(<<0, 300, 400>>, <<0, 0, 5>>, NoPos),
      PageTrack(NoPos, <<0, 0, 5>>, <<0, 300, 400>>) }

PageBystanders ==
    { [satrec |-> TRUE, orbit |-> "MEO", track |-> PageTrack(<<0, 0, 100>>, <<0, 0, 100>>, <<0, 0, 100>>)],
      [satrec |-> FALSE, orbit |-> "", track |-> PageTrack(NoPos, NoPos, NoPos)] }

SmallCatalogues ==
    { << [satrec |-> TRUE, orbit |-> "LEO",
          track |-> PageTrack(<<0, 0, 0>>, <<0, 0, 0>>, <<0, 0, 0>>)],
         [satrec |-> TRUE, orbit |-> "LEO", track |-> tr],
         by >> : tr \in PageMoverTracks, by \in PageBystanders }

LargeCatalogue ==
    [i \in 1..(sliceLimit + 1) |->
        IF i <= DenseSats \/ i = sliceLimit + 1
        THEN [satrec |-> TRUE, orbit |-> "LEO",
              track |-> PageTrack(<<0, 0, i>>, <<0, 0, i>>, <<0, 0, i>>)]
        ELSE [satrec |-> FALSE, orbit |-> "LEO",
              track |-> PageTrack(NoPos, NoPos, NoPos)]]

Catalogues == SmallCatalogues \cup {LargeCatalogue}

\* The satellites of a catalogue, as loaded and propagated once.
Loaded(cat) ==
    [i \in DOMAIN cat |-> Sat(i, cat[i].track.first, cat[i].satrec, cat[i].orbit)]

\* The page after the catalogue has loaded, the positions have been
\* propagated once and the effects of that render have run.
Init ==
    /\ ScannerIdle
    /\ RiskIdle
    /\ CardIdle
    /\ clock = StartMs
    /\ \E cat \in Catalogues :
          /\ ephem = EphemOf(cat)
          /\ satellites = Loaded(cat)
    /\ orbitFilters = OrbitTypes
    /\ realTimeCollisions =
          IF Len(filteredSatellites) = 0 THEN <<>>
          ELSE detectRealTimeCollisions(filteredSatellites, <<50>>, clock)
    /\ rtInterval =
          IF Len(filteredSatellites) = 0 THEN NoInterval
          ELSE [armed |-> TRUE, sats |-> filteredSatellites]
    /\ predictedCollisions = <<>>
    /\ isPredicting = FALSE
    /\ predictTimeouts = <<>>
    /\ coverageMode = "standard"
    /\ predictionProgress = NoProgress
    /\ lastPredict = NoPredict
    /\ predictRunning = FALSE

Next ==
    \/ UpdatePositions
    \/ SetOrbitFilters
    \/ DetectCollisionsTick
    \/ SelectCoverage
    \/ handlePredict24Hours
    \/ PredictTimeout
    \/ PredictReturn

Spec == Init /\ [][Next]_vars

\* The callback that holds the thread comes to its return statement.
CallbackReturns ==
    /\ predictRunning
    /\ predictRunning' = FALSE

\* The page with its timers: a timeout that is pending fires (the browser
\* runs a due timer once the thread is free), and the callback, whose loops
\* are bounded, runs to its end.
FairSpec ==
    /\ Spec
    /\ WF_vars(PredictTimeout)
    /\ WF_predictRunning(CallbackReturns)

----------------------------------------------------------------------------
(* Vocabulary of the properties *)

\* The list is in ascending order of the distance field.
SortedByDistance(s) ==
    \A a, b \in 1..Len(s) : a < b => s[a].distance <= s[b].distance

\* The unordered pair of objects an event is about.
PairOf(e) == {e.sat1.id, e.sat2.id}

NoDuplicatePairs(s) ==
    \A a, b \in 1..Len(s) : a # b => PairOf(s[a]) # PairOf(s[b])

\* The events of the list about the i-th and j-th objects of the input.
EventsOf(s, i, j) ==
    {k \in 1..Len(s) : s[k].sat1 = argSats[i] /\ s[k].sat2 = argSats[j]}

Reported(i, j) == EventsOf(result, i, j) # {}

\* The pairs of the input list, by position in the list.
InputPairs == {pr \in (1..Len(argSats)) \X (1..Len(argSats)) : pr[1] < pr[2]}

\* The threshold in force, in km.
ThresholdInForce == IF argKm = <<>> THEN 50 ELSE argKm[1]

ThresholdSq == (ThresholdInForce * 100) * (ThresholdInForce * 100)

\* Severity of a level: larger is more severe.
Severity(level) ==
    CASE level = "critical" -> 3
      [] level = "high" -> 2
      [] level = "medium" -> 1
      [] level = "low" -> 0

\* The band of a distance given in 1/100 km, as the table of the risk
\* model states it.
BandOf(d) ==
    IF d <= 100 THEN "critical"
    ELSE IF d <= 1000 THEN "high"
    ELSE IF d <= 2500 THEN "medium"
    ELSE "low"

\* The time of sample k of the scan.
SampleTime(k) == now + k * stepMs

\* Whether the propagator yields a position for both objects at a time.
BothAt(i, j, time) ==
    /\ EphemAt(argSats[i].noradId, time) # NoPos
    /\ EphemAt(argSats[j].noradId, time) # NoPos

SepAt(i, j, time) ==
    DistanceSq(EphemAt(argSats[i].noradId, time), EphemAt(argSats[j].noradId, time))

\* The samples of the scan window at which both objects have a position.
ValidSamples(i, j) == {k \in 0..(steps - 1) : BothAt(i, j, SampleTime(k))}

\* The least separation (squared) over the valid samples of a pair that has
\* one.
MinOverSamples(i, j) ==
    LET ds == {SepAt(i, j, SampleTime(k)) : k \in ValidSamples(i, j)}
    IN  CHOOSE d \in ds : \A e \in ds : d <= e

\* The earliest sample that attains it.
EarliestMinSample(i, j) ==
    LET m == MinOverSamples(i, j)
        at == {k \in ValidSamples(i, j) : SepAt(i, j, SampleTime(k)) = m}
    IN  CHOOSE k \in at : \A k2 \in at : k <= k2

----------------------------------------------------------------------------
(* Properties of the proximity scanner *)

\* C1: the list returned by detectRealTimeCollisions is sorted ascending by
\* distance and holds no two events for the same unordered pair of objects.
C1_DetectSortedNoDuplicatePairs ==
    pc = "done" => SortedByDistance(result) /\ NoDuplicatePairs(result)

\* C1 witness: a scan whose events were pushed out of order and came back
\* sorted, with different distances.
C1_Witness ==
    /\ pc = "done"
    /\ Len(result) >= 3
    /\ result # detectRealTimeCollisionsUnsorted(argSats, argKm, now)
    /\ result[1].distance < result[Len(result)].distance

\* C2: detectRealTimeCollisions returns an event for a pair of input objects
\* iff both have a position and their separation in km is strictly below
\* thresholdKm (50 when omitted); no other pair produces an event.
C2_DetectReportsExactlyClosePairs ==
    pc = "done" =>
        /\ \A pr \in InputPairs :
              Reported(pr[1], pr[2]) <=>
                 /\ argSats[pr[1]].position # NoPos
                 /\ argSats[pr[2]].position # NoPos
                 /\ DistanceSq(argSats[pr[1]].position, argSats[pr[2]].position)
                       < ThresholdSq
        /\ \A k \in 1..Len(result) :
              \E pr \in InputPairs : k \in EventsOf(result, pr[1], pr[2])

\* C2 witness: with the default threshold, a pair exactly 50 km apart that
\* is left out beside two pairs that are reported.
C2_Witness ==
    /\ pc = "done"
    /\ argKm = <<>>
    /\ Len(result) = 2
    /\ \E pr \in InputPairs :
          /\ argSats[pr[1]].position # NoPos
          /\ argSats[pr[2]].position # NoPos
          /\ DistanceSq(argSats[pr[1]].position, argSats[pr[2]].position) = ThresholdSq
          /\ ~Reported(pr[1], pr[2])

----------------------------------------------------------------------------
(* Properties of the risk model *)

\* C3: the risk level is a monotonic step function of distance: <= 1 km is
\* critical, <= 10 km high, <= 25 km medium, beyond that low; exactly 1, 10
\* and 25 km fall in the stricter band; equal distances get equal levels and
\* the level never gets more severe as the distance grows.
C3_RiskIsMonotonicStepFunction ==
    /\ riskLevel = BandOf(riskDist)
    /\ prevLevel = BandOf(prevDist)
    /\ prevDist = riskDist => prevLevel = riskLevel
    /\ prevDist <= riskDist => Severity(prevLevel) >= Severity(riskLevel)

\* C3 witness: the call before was on exactly 1 km and gave critical, the
\* last one on exactly 25 km and gave medium.
C3_Witness ==
    /\ prevDist = 100
    /\ prevLevel = "critical"
    /\ riskDist = 2500
    /\ riskLevel = "medium"

----------------------------------------------------------------------------
(* Properties of the predictive search *)

\* C5: the result of predictCollisions24Hours is sorted ascending by
\* distance and holds the lowest-distance events found: no event found by
\* the scan and left out has a smaller distance than an event of the result.
C5_PredictSortedLowestFirst ==
    pc = "done" =>
        LET found == PredictFound(argSats, argKm, now)
            left == {k \in 1..Len(found) :
                        \A r \in 1..Len(result) : result[r] # found[k]}
        IN  /\ SortedByDistance(result)
            /\ \A r \in 1..Len(result) : \E k \in 1..Len(found) : found[k] = result[r]
            /\ \A k \in left : \A r \in 1..Len(result) :
                  result[r].distance <= found[k].distance

\* C5 witness: a scan that found more events than it returned, of different
\* distances.
C5_Witness ==
    /\ pc = "done"
    /\ Len(PredictFound(argSats, argKm, now)) > Len(result)
    /\ result[1].distance < result[Len(result)].distance

\* C6: for every event of predictCollisions24Hours the distance is the
\* minimum separation over the samples at which both objects have a
\* position, and the time and the two positions are those of the earliest
\* sample that attains it.
C6_PredictReportsEarliestMinimum ==
    pc = "done" =>
        \A pr \in InputPairs : \A k \in EventsOf(result, pr[1], pr[2]) :
            LET i == pr[1]
                j == pr[2]
                e == result[k]
                t == SampleTime(EarliestMinSample(i, j))
            IN  /\ ValidSamples(i, j) # {}
                /\ e.distance = RoundHundredths(MinOverSamples(i, j))
                /\ e.timeOfClosestApproach = t
                /\ e.position1 = EphemAt(argSats[i].noradId, t)
                /\ e.position2 = EphemAt(argSats[j].noradId, t)

\* C6 witness: an event whose minimum is attained at the second sample and
\* at every later one, the first sample being valid and farther.
C6_Witness ==
    /\ pc = "done"
    /\ \E pr \in InputPairs :
          /\ Reported(pr[1], pr[2])
          /\ BothAt(pr[1], pr[2], SampleTime(0))
          /\ SepAt(pr[1], pr[2], SampleTime(0)) > MinOverSamples(pr[1], pr[2])
          /\ \A k \in EventsOf(result, pr[1], pr[2]) :
                result[k].timeOfClosestApproach = SampleTime(1)

\* C7: predictCollisions24Hours reports a pair only if the minimum distance
\* found for it is strictly below thresholdKm; a pair whose minimum is at or
\* above the threshold never appears.
C7_PredictReportsOnlyBelowThreshold ==
    pc = "done" =>
        \A pr \in InputPairs :
            Reported(pr[1], pr[2]) =>
                /\ ValidSamples(pr[1], pr[2]) # {}
                /\ MinOverSamples(pr[1], pr[2]) < ThresholdSq

\* C7 witness: a pair whose minimum is exactly the threshold is left out
\* while another pair is reported.
C7_Witness ==
    /\ pc = "done"
    /\ Len(result) >= 1
    /\ \E pr \in InputPairs :
          /\ argSats[pr[1]].satrec
          /\ argSats[pr[2]].satrec
          /\ ValidSamples(pr[1], pr[2]) # {}
          /\ MinOverSamples(pr[1], pr[2]) = ThresholdSq
          /\ ~Reported(pr[1], pr[2])

\* C8: a sample at which the propagator yields no position for either
\* object is skipped for that sample only: a pair of objects with an orbital
\* state is still reported from its remaining samples, the other pairs are
\* still evaluated, and a pair with no valid sample contributes no event
\* (stated of the scans whose result the cap of 50 did not cut).
C8_PredictSkipsFailedSamplesOnly ==
    pc = "done" /\ Len(result) < 50 =>
        \A pr \in InputPairs :
            LET i == pr[1]
                j == pr[2]
            IN  /\ ValidSamples(i, j) = {} => ~Reported(i, j)
                /\ ( /\ argSats[i].satrec
                     /\ argSats[j].satrec
                     /\ ValidSamples(i, j) # {}
                     /\ MinOverSamples(i, j) < ThresholdSq )
                   => \E k \in EventsOf(result, i, j) :
                         result[k].distance = RoundHundredths(MinOverSamples(i, j))

\* C8 witness: one pair fails at its first sample and is reported from the
\* later ones, another pair has no valid sample and is left out, and a pair
\* that comes after both in the scan is reported.
C8_Witness ==
    /\ pc = "done"
    /\ Len(argSats) = 3
    /\ ~BothAt(1, 2, SampleTime(0))
    /\ Reported(1, 2)
    /\ argSats[1].satrec /\ argSats[3].satrec
    /\ ValidSamples(1, 3) = {}
    /\ ~Reported(1, 3)

----------------------------------------------------------------------------
(* Properties of the search resolution *)

\* The instants of the scanned span at which the separation of a pair can
\* change, and its start: the tracks are constant in between.
TurningTimes(i, j) ==
    LET ti == ephem[argSats[i].noradId]
        tj == ephem[argSats[j].noradId]
    IN  {t \in {now, ti.t1, ti.t2, tj.t1, tj.t2} :
            now <= t /\ t <= SampleTime(steps - 1)}

\* The least separation (squared) of a pair over the whole scanned span, the
\* time between the samples included.
TrueMinimum(i, j) ==
    LET ds == {SepAt(i, j, t) : t \in {u \in TurningTimes(i, j) : BothAt(i, j, u)}}
    IN  CHOOSE d \in ds : \A e \in ds : d <= e

Gap(a, b) == IF a < b THEN b - a ELSE a - b

\* C9: when the closest approach of a reported pair falls between two coarse
\* samples, the reported distance is strictly closer to the true minimum
\* than the minimum over the coarse samples is.
C9_RefinedCloserThanCoarse ==
    pc = "done" =>
        \A pr \in InputPairs :
            \A k \in EventsOf(result, pr[1], pr[2]) :
                LET coarse == RoundHundredths(MinOverSamples(pr[1], pr[2]))
                    true == RoundHundredths(TrueMinimum(pr[1], pr[2]))
                IN  true < coarse =>
                        Gap(result[k].distance, true) < Gap(coarse, true)

----------------------------------------------------------------------------
(* Properties of the coverage policy *)

C10_ProgressEndsComplete ==
    lastPredict.ran /\ ~isPredicting =>
        /\ predictionProgress.phase = "complete"
        /\ predictionProgress.progress = 100

----------------------------------------------------------------------------
(* Properties of the scheduling of the page *)

\* C11: a look-ahead invocation never starts while an earlier one has not
\* published, so at most one is pending at any time; and every change of
\* predictedCollisions, at any point of any sequence of Predict requests and
\* timer firings, installs the result of the invocation started last: the
\* scan over the capped list that invocation captured, with nothing left
\* pending behind it.
C11_LatestInvocationSurfaces ==
    [][ /\ Len(predictTimeouts') <= 1
        /\ isPredicting' <=> Len(predictTimeouts') = 1
        /\ (predictedCollisions' # predictedCollisions \/ lastPredict' # lastPredict) =>
              /\ predictRunning
              /\ predictTimeouts' = <<>>
              /\ lastPredict'.offered = Len(Head(predictTimeouts).sats)
              /\ predictedCollisions' =
                    predictCollisions24Hours(ClipForPredict(Head(predictTimeouts).sats),
                                             <<50>>, clock)
      ]_vars

\* An earlier invocation has published, and a later one, started over a list
\* of another length, is running.
C11_Witness ==
    /\ lastPredict.ran
    /\ predictRunning
    /\ Len(predictTimeouts) = 1
    /\ Len(Head(predictTimeouts).sats) # lastPredict.offered

\* C12: the effective count the panel shows for the mode selected when a
\* look-ahead scan ran equals the number of objects that scan was given.
C12_EffectiveCountIsScanInput ==
    lastPredict.ran => effectiveSatellites(lastPredict.mode) = lastPredict.input

----------------------------------------------------------------------------
(* Properties of the event card *)

\* C13: the card flags its event as using stale elements exactly when the
\* element age of one of the two objects exceeds 168 hours, and the risk
\* level it shows is the risk level of the event, flagged or not.
C13_StaleFlagIffEitherAgeExceeds ==
    card.rendered =>
        /\ card.tleAgeWarning <=>
              (card.ages[1] > staleHours \/ card.ages[2] > staleHours)
        /\ card.badge = toUpperCase[card.collision.riskLevel]

----------------------------------------------------------------------------
(* Properties of the error policy *)

\* C14: an invocation of the look-ahead scan ends in an error thrown to the
\* caller, and not in a result, exactly when it is misconfigured (its
\* threshold is not positive); samples and pairs that fail never make it
\* throw.
C14_MisconfigurationThrows ==
    pc \in {"done", "threw"} => (pc = "threw" <=> ThresholdInForce <= 0)

----------------------------------------------------------------------------
(* Properties of the two scanners on the page *)

\* C15: the list the armed real-time interval scans is the whole filtered
\* list of the moment, whatever its length, and while that list is not empty
\* realTimeCollisions is the scan of the whole of it; a look-ahead scan is
\* given at most sliceLimit objects and never more than the page had.
C15_RealTimeScansWholeFilteredSet ==
    /\ rtInterval.armed => rtInterval.sats = filteredSatellites
    /\ Len(filteredSatellites) > 0 =>
          realTimeCollisions =
              detectRealTimeCollisions(filteredSatellites, <<50>>, clock)
    /\ lastPredict.ran =>
          /\ lastPredict.input <= sliceLimit
          /\ lastPredict.input <= lastPredict.offered

\* The real-time list holds an event about the object after the cap, while
\* the look-ahead scan of the same catalogue was given the capped prefix.
C15_Witness ==
    /\ \E k \in 1..Len(realTimeCollisions) :
          realTimeCollisions[k].sat2.id = SatId(sliceLimit + 1)
    /\ rtInterval.armed
    /\ Len(rtInterval.sats) > sliceLimit
    /\ lastPredict.ran
    /\ lastPredict.input = sliceLimit
    /\ lastPredict.offered > sliceLimit

----------------------------------------------------------------------------
(* Properties of the proximity scanner on incomplete data *)

\* C16: the proximity scan of any list, objects without a position included,
\* returns a list of events; no event is about an object without a position;
\* and the list is the one the scan returns when the objects without a
\* position are taken out of the input, so that leaving their pairs out
\* removes and changes no event of another pair.
C16_MissingPositionsOnlyExclude ==
    pc = "done" =>
        /\ result \in Seq({result[k] : k \in 1..Len(result)})
        /\ \A k \in 1..Len(result) :
              result[k].position1 # NoPos /\ result[k].position2 # NoPos
        /\ result = detectRealTimeCollisions(
                        SelectSeq(argSats, LAMBDA sat : sat.position # NoPos),
                        argKm, now)

\* A scan of three objects, the middle one without a position, that reports
\* the pair of the other two.
C16_Witness ==
    /\ pc = "done"
    /\ Len(argSats) = 3
    /\ argSats[2].position = NoPos
    /\ Len(result) = 1
    /\ PairOf(result[1]) = {argSats[1].id, argSats[3].id}

\* C17: while a look-ahead scan is running, a real-time scan that is due (its
\* interval is armed) can run and publish before the look-ahead scan ends.
C17_RealTimeRunsDuringPredict ==
    predictRunning /\ rtInterval.armed => ENABLED DetectCollisionsTick

\* C18: a position tick leaves the list that a pending or running look-ahead
\* scan captured, and every object in it, as they were, and leaves the events
\* already published by a look-ahead scan as they were; the list a real-time
\* scan reads after the tick is the new array, filtered.
C18_TickLeavesSnapshotsAlone ==
    [][ clock' # clock =>
          /\ predictTimeouts' = predictTimeouts
          /\ predictedCollisions' = predictedCollisions
          /\ rtInterval'.armed => rtInterval'.sats = filteredSatellites'
      ]_vars

\* A pending look-ahead scan holds the list of before the tick, in which an
\* object is not where the array of the page now has it.
C18_Witness ==
    /\ Len(predictTimeouts) = 1
    /\ clock > StartMs
    /\ Len(Head(predictTimeouts).sats) = Len(filteredSatellites)
    /\ \E i \in 1..Len(filteredSatellites) :
          /\ Head(predictTimeouts).sats[i].id = filteredSatellites[i].id
          /\ Head(predictTimeouts).sats[i].position # filteredSatellites[i].position

\* C19: a scan changes nothing but the list it returns.  A step of the page
\* in which a scan runs and nothing is ticked or filtered leaves the objects
\* of the page and the list the real-time interval reads as they were; the
\* return of a look-ahead scan leaves the events of the last real-time scan
\* as they were; and a real-time scan leaves the events of the last
\* look-ahead scan and the lists of the pending ones as they were.
C19_ScansLeaveInputsAndResults ==
    [][ /\ (clock' = clock /\ orbitFilters' = orbitFilters) =>
              /\ satellites' = satellites
              /\ rtInterval' = rtInterval
        /\ (predictedCollisions' # predictedCollisions \/ lastPredict' # lastPredict) =>
              realTimeCollisions' = realTimeCollisions
        /\ realTimeCollisions' # realTimeCollisions =>
              /\ predictedCollisions' = predictedCollisions
              /\ predictTimeouts' = predictTimeouts
      ]_vars

\* A look-ahead scan has returned events while the events of a real-time
\* scan were on the page, and a real-time scan has run since (after a tick).
C19_Witness ==
    /\ lastPredict.ran
    /\ ~isPredicting
    /\ predictedCollisions # <<>>
    /\ realTimeCollisions # <<>>
    /\ clock > StartMs
    /\ \E k \in 1..Len(predictedCollisions) :
          predictedCollisions[k].timeOfClosestApproach < clock

----------------------------------------------------------------------------
(* Properties of the order among events of equal distance *)

Reverse(s) == [k \in 1..Len(s) |-> s[Len(s) + 1 - k]]

\* The pairs the events of a list are about, in the order of the list.
PairSeq(s) == [k \in 1..Len(s) |-> PairOf(s[k])]

\* C20: the order of the events the look-ahead scan returns does not depend
\* on the order in which the objects were listed: the scan of the same
\* objects listed backwards returns events about the same pairs in the same
\* order.
C20_OrderIndependentOfListing ==
    pc = "done" =>
        PairSeq(result) =
            PairSeq(predictCollisions24Hours(Reverse(argSats), argKm, now))

----------------------------------------------------------------------------
(* Properties of the pair budget *)

\* The places of the input at which the objects have an orbital state.
Orbital == {i \in 1..Len(argSats) : argSats[i].satrec}

OrbitalPairs == {pr \in Orbital \X Orbital : pr[1] < pr[2]}

\* The number of the pass of the inner loop that looks at the pair of the
\* places i < j (1-based) of a list of n objects, passes counted from 1 in
\* the order i ascending, then j ascending.
PairRank(n, i, j) == (i - 1) * n - ((i - 1) * i) \div 2 + (j - i)

\* The place in the input of the object of an id.
PlaceOf(id) == CHOOSE i \in 1..Len(argSats) : argSats[i].id = id

RankOf(e) == PairRank(Len(argSats), PlaceOf(e.sat1.id), PlaceOf(e.sat2.id))

\* C21: the look-ahead scan looks at the pairs in the order i ascending,
\* then j ascending, and at the first maxPairs of them only: every event is
\* about a pair (i, j), i < j, among the first maxPairs of that order, every
\* close pair of objects with an orbital state among those is reported, and
\* events of equal distance come in that order.
C21_FirstPairsInFixedOrder ==
    pc = "done" =>
        /\ \A k \in 1..Len(result) :
              /\ PlaceOf(result[k].sat1.id) < PlaceOf(result[k].sat2.id)
              /\ RankOf(result[k]) <= maxPairs
        /\ \A pr \in OrbitalPairs :
              ( /\ PairRank(Len(argSats), pr[1], pr[2]) <= maxPairs
                /\ MinOverSamples(pr[1], pr[2]) < ThresholdSq )
              => Reported(pr[1], pr[2])
        /\ \A a, b \in 1..Len(result) :
              (a < b /\ result[a].distance = result[b].distance)
              => RankOf(result[a]) < RankOf(result[b])

\* A list of more than maxPairs pairs in which the pair that exhausts the
\* budget is reported, and a close pair after it is not.
C21_Witness ==
    /\ pc = "done"
    /\ \E k \in 1..Len(result) : RankOf(result[k]) = maxPairs
    /\ \E pr \in OrbitalPairs :
          /\ PairRank(Len(argSats), pr[1], pr[2]) > maxPairs
          /\ MinOverSamples(pr[1], pr[2]) < ThresholdSq
          /\ ~Reported(pr[1], pr[2])

\* C30: only the pairs that are propagated use up the budget of maxPairs:
\* while the pairs of objects that both have an orbital state number at most
\* maxPairs, each of them is evaluated, so each close one is reported,
\* however many pairs are skipped for lack of an orbital state.
C30_BudgetSpentOnPropagatedPairsOnly ==
    (pc = "done" /\ Cardinality(OrbitalPairs) <= maxPairs) =>
        \A pr \in OrbitalPairs :
            MinOverSamples(pr[1], pr[2]) < ThresholdSq => Reported(pr[1], pr[2])

----------------------------------------------------------------------------
(* Properties of the coarse sampling *)

QuarterHourMs == 15 * 60 * 1000

DayMs == 24 * 60 * 60 * 1000

\* The sample times of a scan started at `now`: 96 times a quarter of an hour
\* apart, from the start to 23 h 45 min after it.
CoarseSampleTimes == {now + k * QuarterHourMs : k \in 0..95}

\* C22: a pair is sampled at the 96 times a quarter of an hour apart that
\* begin at the start of the scan and end 23 h 45 min later, all within the
\* day: a pair of objects with an orbital state that is below the threshold
\* at any of them is reported (unless the result was cut at 50), and every
\* event is dated at one of them, at which its pair is below the threshold
\* at the positions the event gives.
C22_NinetySixQuarterHourSamples ==
    pc = "done" =>
        /\ \A t \in CoarseSampleTimes : now <= t /\ t < now + DayMs
        /\ Len(result) < 50 =>
              \A pr \in InputPairs : \A t \in CoarseSampleTimes :
                  ( /\ argSats[pr[1]].satrec /\ argSats[pr[2]].satrec
                    /\ BothAt(pr[1], pr[2], t)
                    /\ SepAt(pr[1], pr[2], t) < ThresholdSq )
                  => Reported(pr[1], pr[2])
        /\ \A k \in 1..Len(result) :
              LET e == result[k]
              IN  /\ e.timeOfClosestApproach \in CoarseSampleTimes
                  /\ e.position1 = EphemAt(e.sat1.noradId, e.timeOfClosestApproach)
                  /\ e.position2 = EphemAt(e.sat2.noradId, e.timeOfClosestApproach)
                  /\ DistanceSq(e.position1, e.position2) < ThresholdSq

\* A pair that is close at the last sample only is reported, dated 23 h 45
\* min after the start.
C22_Witness ==
    /\ pc = "done"
    /\ Len(result) = 1
    /\ result[1].timeOfClosestApproach = now + 95 * QuarterHourMs

----------------------------------------------------------------------------
(* Properties of the timers of the page *)

\* C23: a position tick alone starts no real-time scan: it leaves the events
\* of the last real-time scan and the real-time timer as they were.
C23_TickStartsNoRealTimeScan ==
    [][ clock' # clock =>
          /\ realTimeCollisions' = realTimeCollisions
          /\ rtInterval' = rtInterval
      ]_vars

----------------------------------------------------------------------------
(* Properties of the fields of an event *)

\* The separation of the two positions an event gives, squared, 1/100 km.
SeparationSq(e) == DistanceSq(e.position1, e.position2)

\* The band of a separation given by its square, as the table of the risk
\* model states it.
BandOfSq(d2) ==
    IF d2 <= 100 * 100 THEN "critical"
    ELSE IF d2 <= 1000 * 1000 THEN "high"
    ELSE IF d2 <= 2500 * 2500 THEN "medium"
    ELSE "low"

\* Whether r hundredths is the separation of square d2 rounded to the
\* nearest hundredth, halves up.
RoundsTo(d2, r) ==
    /\ r >= 0
    /\ (2 * r - 1) * (2 * r - 1) <= 4 * d2 \/ r = 0
    /\ 4 * d2 < (2 * r + 1) * (2 * r + 1)

\* C24, as the spec states it: the level of every event is the band of the
\* distance the event reports.
C24_LevelIsBandOfReportedDistance ==
    pc = "done" =>
        \A k \in 1..Len(result) : result[k].riskLevel = BandOf(result[k].distance)

\* C24, amended: the level of every event is the band of the separation of
\* its two positions before rounding, and the distance it reports is that
\* separation rounded to 0.01 km; so the level is the band of the reported
\* distance except when the separation is above 1, 10 or 25 km by less than
\* 0.005 km: then the reported distance is the boundary itself and the level
\* is the band above the boundary.
C24_LevelIsBandOfSeparation ==
    pc = "done" =>
        \A k \in 1..Len(result) :
            LET e == result[k]
            IN  /\ e.riskLevel = BandOfSq(SeparationSq(e))
                /\ RoundsTo(SeparationSq(e), e.distance)
                /\ \/ e.riskLevel = BandOf(e.distance)
                   \/ /\ e.distance \in {100, 1000, 2500}
                      /\ SeparationSq(e) > e.distance * e.distance
                      /\ e.riskLevel = BandOf(e.distance + 1)

\* An event for two objects 1.005 km apart: it reports 1.00 km and is high.
C24_Witness ==
    /\ pc = "done"
    /\ \E k \in 1..Len(result) :
          /\ result[k].distance = 100
          /\ result[k].riskLevel = "high"
          /\ SeparationSq(result[k]) > 100 * 100

DistinctEventIds(s) == \A a, b \in 1..Len(s) : a # b => s[a].id # s[b].id

\* The ids of the objects of the input are pairwise distinct.
DistinctObjectIds ==
    \A k, m \in 1..Len(argSats) : k # m => argSats[k].id # argSats[m].id

\* C26, as the spec states it: when the ids of the input objects are
\* pairwise distinct, so are the ids of the events of the result.
C26_DistinctIdsGiveDistinctEventIds ==
    (pc = "done" /\ DistinctObjectIds) => DistinctEventIds(result)

\* C26, amended: when the ids of the input objects are pairwise distinct and
\* none of them contains a hyphen, the ids of the events of the result are
\* pairwise distinct.
C26_PlainIdsGiveDistinctEventIds ==
    ( /\ pc = "done"
      /\ DistinctObjectIds
      /\ \A k \in 1..Len(argSats) : argSats[k].id \in PlainIds )
    => DistinctEventIds(result)

\* A scan of three objects with plain ids that reports all three pairs.
C26_Witness ==
    /\ pc = "done"
    /\ Len(argSats) = 3
    /\ \A k \in 1..3 : argSats[k].id \in PlainIds
    /\ Len(result) = 3
    /\ DistinctEventIds(result)

\* C27: every Predict request completes: once isPredicting is true, the scan
\* that was scheduled publishes its events and isPredicting is false again,
\* also when the propagator yields no position during the scan; and
\* isPredicting is true exactly while a requested scan has not published.
C27_PredictRequestCompletes ==
    /\ [](isPredicting <=> Len(predictTimeouts) = 1)
    /\ isPredicting ~> (~isPredicting /\ lastPredict.ran)

\* A request has completed although the propagator failed, from the second
\* position update on, for an object with an orbital state that the scan
\* was given.
C27_Witness ==
    /\ lastPredict.ran
    /\ ~isPredicting
    /\ lastPredict.input >= 2
    /\ satellites[2].satrec
    /\ satellites[2].orbitType \in orbitFilters
    /\ ephem[2].rest = NoPos

\* C28: from the moment a Predict request is accepted until its result is
\* published, the Predict button and the coverage-mode selector are disabled:
\* while isPredicting holds exactly one invocation is pending, no step adds
\* another or changes the coverage mode, and isPredicting ends only in the
\* step of the running callback that publishes the result.
C28_ControlsDisabledWhilePending ==
    [][ isPredicting =>
          /\ Len(predictTimeouts) = 1
          /\ Len(predictTimeouts') <= 1
          /\ coverageMode' = coverageMode
          /\ \/ isPredicting' /\ predictTimeouts' = predictTimeouts
             \/ /\ predictRunning
                /\ lastPredict'.ran
                /\ predictTimeouts' = <<>>
      ]_vars

\* A request is pending, not yet running, under a coverage mode that was
\* chosen on the selector before the request.
C28_Witness ==
    /\ isPredicting
    /\ ~predictRunning
    /\ Len(predictTimeouts) = 1
    /\ coverageMode # "standard"

\* C29: in every settled state of the page, after any sequence of
\* orbit-filter changes and position ticks, every event of realTimeCollisions
\* is about two objects of the current filtered set; when the filtered set is
\* empty, realTimeCollisions is empty.
C29_EventsReferToFilteredSet ==
    LET shown == {filteredSatellites[k].id : k \in 1..Len(filteredSatellites)}
    IN  /\ \A k \in 1..Len(realTimeCollisions) :
              PairOf(realTimeCollisions[k]) \subseteq shown
        /\ Len(filteredSatellites) = 0 => realTimeCollisions = <<>>

====
